---- MODULE Spec2Model ----
(***************************************************************************)
(* A model of src/source/UnityContent.ts: the UnityContent handle, its     *)
(* event bindings, the process-wide window.ReactUnityWebGL namespace and   *)
(* the collaborators it calls (the Unity instance, the logging service).   *)
(*                                                                         *)
(* JavaScript values are written as the text of their literal:             *)
(* "undefined", "null", "true", "0", "42".  A handle is identified by the  *)
(* order of its construction (1, 2, ...): the per-object fields are        *)
(* sequences indexed by it.                                                *)
(***************************************************************************)
EXTENDS Integers, Sequences, FiniteSets, TLC

\* Bounds of the model.
MaxHandles == 2        \* handles constructed in one process
MaxEvents == 3         \* on() calls in one process
MaxPending == 2        \* Quit completion callbacks the runtime holds

Undefined == "undefined"
Null == "null"

\* The Unity instances of the runtime: two that expose Quit, one that does not.
QuitInstances == {"instA", "instB"}
NoQuitInstance == "instNoQuit"
Instances == QuitInstances \cup {NoQuitInstance}
\* What a caller may hand to setUnityInstance (no validation).
InstanceValues == Instances \cup {Undefined, Null}
Components == {"component"}

EventNames == {"loaded", "quitted"}
Callbacks == {"cb1", "cb2"}
TriggerNames == EventNames \cup {"missing"}
EventValues == {Undefined, "42"}
Parameters == {Undefined, Null, "0", "'text'"}
FullscreenValues == {"true", "false"}
LoggingService == "loggingService"

VARIABLES
  staticUniqueID,   \* UnityContent.uniqueID (static)
  uniqueID,         \* this.uniqueID of each handle
  unityInstance,    \* this.unityInstance of each handle
  unityComponent,   \* this.unityComponent of each handle
  unityEvents,      \* this.unityEvents of each handle
  unityConfig,      \* this.unityConfig of each handle
  ReactUnityWebGL,  \* window.ReactUnityWebGL
  pendingQuit,      \* the completion callbacks handed to Quit, not yet invoked
  registered,       \* every on() call made so far by any handle, in order
  live,             \* the handles the UI layer still holds a reference to
  last,             \* the operation that ran last, with its arguments
  calls,            \* the calls it made on the collaborators
  dispatched,       \* the triggerUnityEvent calls it made
  invoked,          \* the event callbacks it invoked, with their argument
  raised,           \* whether it raised
  running           \* whether it is still in its dispatch loop (it has not returned)

vars == <<staticUniqueID, uniqueID, unityInstance, unityComponent, unityEvents,
          unityConfig, ReactUnityWebGL, pendingQuit, registered, live, last, calls,
          dispatched, invoked, raised, running>>

Handles == DOMAIN uniqueID

\* typeof x !== "undefined"
TypeofDefined(x) == x # Undefined

\* Mutant of NotNullish: the strict comparison x !== null.
NotNullishStrict(x) == x # Null

\* x != null (loose inequality: neither null nor undefined)
NotNullish(x) == x \notin {Undefined, Null}

\* Mutant of TypeofQuit: Quit is taken to be there.
TypeofQuitAssumed(x) == "function"

\* typeof instance.Quit, for an instance that is an object
TypeofQuit(x) == IF x \in QuitInstances THEN "function" ELSE Undefined

\* Mutant of NextUniqueID: the counter is read and not incremented.
NextUniqueIDSame(n) == n

\* ++UnityContent.uniqueID
NextUniqueID(n) == n + 1

UndefinedNamespace == [defined |-> FALSE, entry |-> [e \in EventNames |-> Undefined]]
EmptyNamespace == [defined |-> TRUE, entry |-> [e \in EventNames |-> Undefined]]

\* Mutant of EnsureNamespace: every construction makes a new namespace.
EnsureNamespaceReset(ns) == EmptyNamespace

\* if (typeof window.ReactUnityWebGL === "undefined") window.ReactUnityWebGL = {}
EnsureNamespace(ns) == IF ~ns.defined THEN EmptyNamespace ELSE ns

\* Mutant of RegisterInNamespace: a name already registered is kept.
RegisterInNamespaceKeepFirst(ns, eventName, eventCallback) ==
  IF ns.entry[eventName] = Undefined
    THEN [ns EXCEPT !.entry[eventName] = eventCallback]
    ELSE ns

\* window.ReactUnityWebGL[eventName] = parameter => eventCallback(parameter)
RegisterInNamespace(ns, eventName, eventCallback) ==
  [ns EXCEPT !.entry[eventName] = eventCallback]

\* Mutant of PushEvent: a binding already in the list is not added again.
PushEventUnique(events, eventName, eventCallback) ==
  IF \E k \in DOMAIN events :
       events[k] = [eventName |-> eventName, eventCallback |-> eventCallback]
    THEN events
    ELSE Append(events, [eventName |-> eventName, eventCallback |-> eventCallback])

\* this.unityEvents.push({eventName, eventCallback})
PushEvent(events, eventName, eventCallback) ==
  Append(events, [eventName |-> eventName, eventCallback |-> eventCallback])

\* Mutant of PushOn: one list shared by every handle (a static field).
PushOnShared(allEvents, h, eventName, eventCallback) ==
  [k \in DOMAIN allEvents |-> PushEvent(allEvents[k], eventName, eventCallback)]

\* this.unityEvents.push(...): the list pushed to is the handle's own
PushOn(allEvents, h, eventName, eventCallback) ==
  [allEvents EXCEPT ![h] = PushEvent(@, eventName, eventCallback)]

\* fullscreen === true ? 1 : 0
FullscreenFlag(fullscreen) == IF fullscreen = "true" THEN "1" ELSE "0"

\* Mutant of SendArguments: the parameter is tested for truth, not for undefined.
SendArgumentsTruthy(gameObjectName, methodName, parameter) ==
  IF parameter \in {Undefined, Null, "false", "0", "''"}
    THEN <<gameObjectName, methodName>>
    ELSE <<gameObjectName, methodName, parameter>>

\* SendMessage(gameObjectName, methodName) or SendMessage(gameObjectName, methodName, parameter)
SendArguments(gameObjectName, methodName, parameter) ==
  IF parameter = Undefined
    THEN <<gameObjectName, methodName>>
    ELSE <<gameObjectName, methodName, parameter>>

Call(target, fn, args) == [target |-> target, fn |-> fn, args |-> args]
Warning == Call(LoggingService, "warnUnityContentRemoveNotAvailable", <<>>)
Op(op, h, args) == [op |-> op, content |-> h, args |-> args]

\* The callbacks of the application that call back into their handle:
\*   cbSend      calls this.send("GameObject", "Method")
\*   cbThrow     throws
\*   cbOnLoaded  calls this.on("loaded", cb1)
\*   cbRearm     calls this.on("loaded", cbRearm): it registers itself again
SendingCallback == "cbSend"
ThrowingCallback == "cbThrow"
RegisteringCallback == "cbOnLoaded"
RearmingCallback == "cbRearm"

\* What a dispatch works on: the fields of its handle and of the process that
\* the callbacks it invokes can read and write, and what it did so far.
\*   loop: "returns"  the for loop ran to its end (or was left by a throw)
\*         "runs"     the loop is known never to reach its end
\*         "bound"    the loop needs more on() calls than the model has
World(h) ==
  [content |-> h, events |-> unityEvents[h], instance |-> unityInstance[h],
   ns |-> ReactUnityWebGL, registered |-> registered,
   dispatching |-> Undefined, invoked |-> <<>>, calls |-> <<>>, raised |-> FALSE,
   loop |-> "returns"]

\* send(gameObjectName, methodName, parameter) called by a callback
SendIn(w, gameObjectName, methodName, parameter) ==
  IF NotNullish(w.instance)
    THEN [w EXCEPT !.calls = Append(@, Call(w.instance, "SendMessage",
                                SendArguments(gameObjectName, methodName, parameter)))]
    ELSE w

\* on(eventName, eventCallback) called by a callback.  A callback that
\* registers itself under the name being dispatched is invoked again by the
\* loop, each time adding the binding that keeps the loop from its end.
OnIn(w, eventName, eventCallback, self) ==
  IF Len(w.registered) < MaxEvents
    THEN [w EXCEPT !.events = PushEvent(@, eventName, eventCallback),
                   !.registered = Append(@, [content |-> w.content, eventName |-> eventName,
                                             eventCallback |-> eventCallback]),
                   !.ns = RegisterInNamespace(@, eventName, eventCallback)]
    ELSE [w EXCEPT !.loop = IF eventName = w.dispatching /\ eventCallback = self
                              THEN "runs" ELSE "bound"]

\* this.unityEvents[_i].eventCallback(eventValue): a callback of the
\* application runs, handed one argument.
InvokeCallback(w, eventCallback, argument) ==
  LET called == [w EXCEPT !.invoked = Append(@, [callback |-> eventCallback,
                                                 argument |-> argument])] IN
  CASE eventCallback = SendingCallback -> SendIn(called, "GameObject", "Method", Undefined)
    [] eventCallback = ThrowingCallback -> [called EXCEPT !.raised = TRUE]
    [] eventCallback = RegisteringCallback -> OnIn(called, "loaded", "cb1", eventCallback)
    [] eventCallback = RearmingCallback -> OnIn(called, "loaded", eventCallback, eventCallback)
    [] OTHER -> called

\* for (_i = 0; _i < this.unityEvents.length; _i++)
\*   if (this.unityEvents[_i].eventName === eventName)
\*     this.unityEvents[_i].eventCallback(eventValue)
\* The length is read again at every turn; a throw leaves the loop.
RECURSIVE TriggerLoop(_, _, _, _)
TriggerLoop(w, eventName, eventValue, i) ==
  IF i > Len(w.events) \/ w.raised \/ w.loop # "returns"
    THEN w
    ELSE IF w.events[i].eventName = eventName
      THEN TriggerLoop(InvokeCallback(w, w.events[i].eventCallback, eventValue),
                       eventName, eventValue, i + 1)
      ELSE TriggerLoop(w, eventName, eventValue, i + 1)

\* Mutant of Trigger: the loop breaks after its first match.
TriggerEarlyExit(w, eventName, eventValue) ==
  LET done == TriggerLoop([w EXCEPT !.dispatching = eventName], eventName, eventValue, 1)
  IN  [done EXCEPT !.invoked = IF Len(@) > 1 THEN <<@[1]>> ELSE @]

\* triggerUnityEvent(eventName, eventValue) in the world w
Trigger(w, eventName, eventValue) ==
  TriggerLoop([w EXCEPT !.dispatching = eventName], eventName, eventValue, 1)

\* The values JavaScript takes for false in a condition.
Falsy == {Undefined, Null, "false", "0", "''"}

\* x || d
OrElse(x, d) == IF x \in Falsy THEN d ELSE x

\* The unityConfig argument of the constructor: left out, or an object whose
\* fields are each left out (undefined) or given.
NoConfig == [given |-> FALSE, modules |-> Undefined, unityVersion |-> Undefined,
             adjustOnWindowResize |-> Undefined, id |-> Undefined]
Configs ==
  {NoConfig} \cup
  [given : {TRUE},
   modules : {Undefined, "{a: 1}"},
   unityVersion : {Undefined, "''", "'2020.1'"},
   adjustOnWindowResize : {Undefined, "true", "false"},
   id : {Undefined, "''", "'game'"}]

\* unityConfig || ({} as IUnityConfig)
ConfigOrEmpty(config) == IF config.given THEN config ELSE [NoConfig EXCEPT !.given = TRUE]

\* this.unityConfig = { modules: _unityConfig.modules || {}, ... }
MergeConfig(config) ==
  LET given == ConfigOrEmpty(config) IN
  [modules |-> OrElse(given.modules, "{}"),
   unityVersion |-> OrElse(given.unityVersion, "'undefined'"),
   adjustOnWindowResize |-> given.adjustOnWindowResize,
   id |-> OrElse(given.id, "'nill'")]

RemoveAt(s, k) == SubSeq(s, 1, k - 1) \o SubSeq(s, k + 1, Len(s))

Init ==
  /\ staticUniqueID = 0
  /\ uniqueID = <<>>
  /\ unityInstance = <<>>
  /\ unityComponent = <<>>
  /\ unityEvents = <<>>
  /\ unityConfig = <<>>
  /\ ReactUnityWebGL = UndefinedNamespace
  /\ pendingQuit = <<>>
  /\ registered = <<>>
  /\ live = {}
  /\ last = Op("start", 0, <<>>)
  /\ calls = <<>>
  /\ dispatched = <<>>
  /\ invoked = <<>>
  /\ raised = FALSE
  /\ running = FALSE

\* new UnityContent(buildJsonPath, unityLoaderJsPath, unityConfig)
Construct ==
  /\ ~running /\ Len(uniqueID) < MaxHandles
  /\ staticUniqueID' = NextUniqueID(staticUniqueID)
  /\ uniqueID' = Append(uniqueID, staticUniqueID')
  /\ unityEvents' = Append(unityEvents, <<>>)
  /\ unityInstance' = Append(unityInstance, Undefined)
  /\ unityComponent' = Append(unityComponent, Undefined)
  /\ ReactUnityWebGL' = EnsureNamespace(ReactUnityWebGL)
  /\ live' = live \cup {Len(uniqueID) + 1}
  /\ last' = Op("construct", Len(uniqueID) + 1, <<>>)
  /\ calls' = <<>> /\ dispatched' = <<>> /\ invoked' = <<>> /\ raised' = FALSE
  /\ unityConfig' = Append(unityConfig, MergeConfig(NoConfig))
  /\ UNCHANGED <<running, pendingQuit, registered>>

\* new UnityContent(buildJsonPath, unityLoaderJsPath, unityConfig), with the
\* unityConfig handed over kept among the arguments of the operation.
ConstructWith(config) ==
  /\ ~running /\ Len(uniqueID) < MaxHandles
  /\ staticUniqueID' = NextUniqueID(staticUniqueID)
  /\ uniqueID' = Append(uniqueID, staticUniqueID')
  /\ unityEvents' = Append(unityEvents, <<>>)
  /\ unityInstance' = Append(unityInstance, Undefined)
  /\ unityComponent' = Append(unityComponent, Undefined)
  /\ unityConfig' = Append(unityConfig, MergeConfig(config))
  /\ ReactUnityWebGL' = EnsureNamespace(ReactUnityWebGL)
  /\ live' = live \cup {Len(uniqueID) + 1}
  /\ last' = Op("constructWith", Len(uniqueID) + 1, <<config>>)
  /\ calls' = <<>> /\ dispatched' = <<>> /\ invoked' = <<>> /\ raised' = FALSE
  /\ UNCHANGED <<running, pendingQuit, registered>>

\* The UI layer drops its reference to the handle: there is no destructor.
Discard(h) ==
  /\ ~running /\ h \in live
  /\ live' = live \ {h}
  /\ last' = Op("discard", h, <<>>)
  /\ calls' = <<>> /\ dispatched' = <<>> /\ invoked' = <<>> /\ raised' = FALSE
  /\ UNCHANGED <<running, staticUniqueID, uniqueID, unityConfig, unityInstance, unityComponent,
                 unityEvents, ReactUnityWebGL, pendingQuit, registered>>

SetComponentInstance(h, unityComponentInstance) ==
  /\ ~running /\ h \in live
  /\ unityComponent' = [unityComponent EXCEPT ![h] = unityComponentInstance]
  /\ last' = Op("setComponentInstance", h, <<unityComponentInstance>>)
  /\ calls' = <<>> /\ dispatched' = <<>> /\ invoked' = <<>> /\ raised' = FALSE
  /\ UNCHANGED <<running, staticUniqueID, uniqueID, unityConfig, unityInstance, unityEvents,
                 ReactUnityWebGL, pendingQuit, registered, live>>

SetUnityInstance(h, instance) ==
  /\ ~running /\ h \in live
  /\ unityInstance' = [unityInstance EXCEPT ![h] = instance]
  /\ last' = Op("setUnityInstance", h, <<instance>>)
  /\ calls' = <<>> /\ dispatched' = <<>> /\ invoked' = <<>> /\ raised' = FALSE
  /\ UNCHANGED <<running, staticUniqueID, uniqueID, unityConfig, unityComponent, unityEvents,
                 ReactUnityWebGL, pendingQuit, registered, live>>

SetFullscreen(h, fullscreen) ==
  /\ ~running /\ h \in live
  /\ calls' = IF NotNullish(unityInstance[h])
                THEN <<Call(unityInstance[h], "SetFullscreen", <<FullscreenFlag(fullscreen)>>)>>
                ELSE <<>>
  /\ last' = Op("setFullscreen", h, <<fullscreen>>)
  /\ dispatched' = <<>> /\ invoked' = <<>> /\ raised' = FALSE
  /\ UNCHANGED <<running, staticUniqueID, uniqueID, unityConfig, unityInstance, unityComponent,
                 unityEvents, ReactUnityWebGL, pendingQuit, registered, live>>

Send(h, gameObjectName, methodName, parameter) ==
  /\ ~running /\ h \in live
  /\ calls' = IF NotNullish(unityInstance[h])
                THEN <<Call(unityInstance[h], "SendMessage",
                            SendArguments(gameObjectName, methodName, parameter))>>
                ELSE <<>>
  /\ last' = Op("send", h, <<gameObjectName, methodName, parameter>>)
  /\ dispatched' = <<>> /\ invoked' = <<>> /\ raised' = FALSE
  /\ UNCHANGED <<running, staticUniqueID, uniqueID, unityConfig, unityInstance, unityComponent,
                 unityEvents, ReactUnityWebGL, pendingQuit, registered, live>>

\* Mutant of RemoveBranch: the warning is left out.
RemoveBranchSilent(instance) ==
  IF TypeofDefined(instance) /\ instance # Null /\ TypeofQuit(instance) = "function"
    THEN "quit"
    ELSE "none"

\* remove(): the outcome of its condition and of the branch taken.
\*   "raise": reading .Quit of null is a TypeError
\*   "quit":  this.unityInstance.Quit(callback)
\*   "warn":  loggingService.warnUnityContentRemoveNotAvailable()
RemoveBranch(instance) ==
  IF TypeofDefined(instance)
    THEN IF instance = Null
      THEN "raise"
      ELSE IF TypeofQuit(instance) = "function" THEN "quit" ELSE "warn"
    ELSE "warn"

\* Mutant of Remove: the reference is cleared at once, not on completion.
RemoveClearsAtOnce(h) ==
  /\ ~running /\ h \in live
  /\ LET branch == RemoveBranch(unityInstance[h]) IN
     /\ branch = "quit" => Len(pendingQuit) < MaxPending
     /\ calls' = CASE branch = "quit" -> <<Call(unityInstance[h], "Quit", <<"callback">>)>>
                   [] branch = "warn" -> <<Warning>>
                   [] OTHER -> <<>>
     /\ pendingQuit' = IF branch = "quit"
                         THEN Append(pendingQuit, [content |-> h, instance |-> unityInstance[h]])
                         ELSE pendingQuit
     /\ unityInstance' = IF branch = "quit"
                           THEN [unityInstance EXCEPT ![h] = Undefined]
                           ELSE unityInstance
     /\ raised' = (branch = "raise")
  /\ last' = Op("remove", h, <<>>)
  /\ dispatched' = <<>> /\ invoked' = <<>>
  /\ UNCHANGED <<running, staticUniqueID, uniqueID, unityConfig, unityComponent,
                 unityEvents, ReactUnityWebGL, registered, live>>

Remove(h) ==
  /\ ~running /\ h \in live
  /\ LET branch == RemoveBranch(unityInstance[h]) IN
     /\ branch = "quit" => Len(pendingQuit) < MaxPending
     /\ calls' = CASE branch = "quit" -> <<Call(unityInstance[h], "Quit", <<"callback">>)>>
                   [] branch = "warn" -> <<Warning>>
                   [] OTHER -> <<>>
     /\ pendingQuit' = IF branch = "quit"
                         THEN Append(pendingQuit, [content |-> h, instance |-> unityInstance[h]])
                         ELSE pendingQuit
     /\ raised' = (branch = "raise")
  /\ last' = Op("remove", h, <<>>)
  /\ dispatched' = <<>> /\ invoked' = <<>>
  /\ UNCHANGED <<running, staticUniqueID, uniqueID, unityConfig, unityInstance, unityComponent,
                 unityEvents, ReactUnityWebGL, registered, live>>

\* Mutant of QuitCompletion: the instance reference is not cleared.
QuitCompletionKeepsInstance(w) ==
  Trigger(w, "quitted", Undefined)

\* Mutant of QuitCompletion: the reference is cleared before the dispatch.
QuitCompletionClearsFirst(w) ==
  Trigger([w EXCEPT !.instance = Undefined], "quitted", Undefined)

\* The completion callback that remove() hands to Quit, run in the world w of
\* its handle:
\*   this.triggerUnityEvent("quitted"); this.unityInstance = undefined
\* The assignment is reached when the dispatch returns without a throw.
QuitCompletion(w) ==
  LET done == Trigger(w, "quitted", Undefined) IN
  IF done.raised \/ done.loop # "returns"
    THEN done
    ELSE [done EXCEPT !.instance = Undefined]

\* The runtime invokes a completion callback it was handed.
QuitCallback(k) ==
  /\ ~running /\ k \in DOMAIN pendingQuit
  /\ LET h == pendingQuit[k].content
         done == QuitCompletion(World(h)) IN
     /\ done.loop # "bound"
     /\ invoked' = done.invoked
     /\ calls' = done.calls
     /\ raised' = done.raised
     /\ running' = (done.loop = "runs")
     /\ dispatched' = <<[eventName |-> "quitted", eventValue |-> Undefined]>>
     /\ unityInstance' = [unityInstance EXCEPT ![h] = done.instance]
     /\ unityEvents' = [unityEvents EXCEPT ![h] = done.events]
     /\ ReactUnityWebGL' = done.ns
     /\ registered' = done.registered
     /\ last' = Op("quitCallback", h, <<pendingQuit[k].instance>>)
  /\ pendingQuit' = RemoveAt(pendingQuit, k)
  /\ UNCHANGED <<staticUniqueID, uniqueID, unityConfig, unityComponent, live>>

On(h, eventName, eventCallback) ==
  /\ ~running /\ h \in live
  /\ Len(registered) < MaxEvents
  /\ unityEvents' = PushOn(unityEvents, h, eventName, eventCallback)
  /\ registered' = Append(registered, [content |-> h, eventName |-> eventName,
                                        eventCallback |-> eventCallback])
  /\ ReactUnityWebGL' = RegisterInNamespace(ReactUnityWebGL, eventName, eventCallback)
  /\ last' = Op("on", h, <<eventName, eventCallback>>)
  /\ calls' = <<>> /\ dispatched' = <<>> /\ invoked' = <<>> /\ raised' = FALSE
  /\ UNCHANGED <<running, staticUniqueID, uniqueID, unityConfig, unityInstance, unityComponent,
                 pendingQuit, live>>

TriggerUnityEvent(h, eventName, eventValue) ==
  /\ ~running /\ h \in live
  /\ LET done == Trigger(World(h), eventName, eventValue) IN
     /\ done.loop # "bound"
     /\ invoked' = done.invoked
     /\ calls' = done.calls
     /\ raised' = done.raised
     /\ running' = (done.loop = "runs")
     /\ unityEvents' = [unityEvents EXCEPT ![h] = done.events]
     /\ ReactUnityWebGL' = done.ns
     /\ registered' = done.registered
  /\ dispatched' = <<[eventName |-> eventName, eventValue |-> eventValue]>>
  /\ last' = Op("triggerUnityEvent", h, <<eventName, eventValue>>)
  /\ UNCHANGED <<staticUniqueID, uniqueID, unityConfig, unityInstance, unityComponent,
                 pendingQuit, live>>

\* The runtime calls window.ReactUnityWebGL[eventName](parameter).
NamespaceCall(eventName, parameter) ==
  /\ ~running /\ ReactUnityWebGL.defined
  /\ ReactUnityWebGL.entry[eventName] # Undefined
  /\ invoked' = <<[callback |-> ReactUnityWebGL.entry[eventName], argument |-> parameter]>>
  /\ last' = Op("namespaceCall", 0, <<eventName, parameter>>)
  /\ calls' = <<>> /\ dispatched' = <<>> /\ raised' = FALSE
  /\ UNCHANGED <<running, staticUniqueID, uniqueID, unityConfig, unityInstance, unityComponent,
                 unityEvents, ReactUnityWebGL, pendingQuit, registered, live>>

\* Every operation, by any handle, on every input.
Next ==
  \/ Construct
  \/ \E c \in Configs : ConstructWith(c)
  \/ \E h \in Handles : Discard(h)
  \/ \E h \in Handles, c \in Components : SetComponentInstance(h, c)
  \/ \E h \in Handles, x \in InstanceValues : SetUnityInstance(h, x)
  \/ \E h \in Handles, f \in FullscreenValues : SetFullscreen(h, f)
  \/ \E h \in Handles, p \in Parameters : Send(h, "GameObject", "Method", p)
  \/ \E h \in Handles : Remove(h)
  \/ \E k \in DOMAIN pendingQuit : QuitCallback(k)
  \/ \E h \in Handles, e \in EventNames, cb \in Callbacks : On(h, e, cb)
  \/ \E h \in Handles, e \in TriggerNames, v \in EventValues : TriggerUnityEvent(h, e, v)
  \/ \E e \in EventNames, p \in EventValues : NamespaceCall(e, p)

Spec == Init /\ [][Next]_vars

\* The state after the first handle of the process is constructed.
InitOne ==
  /\ staticUniqueID = NextUniqueID(0)
  /\ uniqueID = <<NextUniqueID(0)>>
  /\ unityInstance = <<Undefined>>
  /\ unityComponent = <<Undefined>>
  /\ unityEvents = << <<>> >>
  /\ unityConfig = <<MergeConfig(NoConfig)>>
  /\ ReactUnityWebGL = EnsureNamespace(UndefinedNamespace)
  /\ pendingQuit = <<>>
  /\ registered = <<>>
  /\ live = {1}
  /\ last = Op("construct", 1, <<>>)
  /\ calls = <<>>
  /\ dispatched = <<>>
  /\ invoked = <<>>
  /\ raised = FALSE
  /\ running = FALSE

\* One handle: registration and dispatch.
NextEvents ==
  \/ \E h \in Handles, e \in EventNames, cb \in Callbacks : On(h, e, cb)
  \/ \E h \in Handles, e \in TriggerNames, v \in EventValues : TriggerUnityEvent(h, e, v)
  \/ \E e \in EventNames, p \in EventValues : NamespaceCall(e, p)

SpecEvents == InitOne /\ [][NextEvents]_vars

\* One handle: the runtime instance attached, used, shut down and attached again.
NextLifecycle ==
  \/ \E h \in Handles, c \in Components : SetComponentInstance(h, c)
  \/ \E h \in Handles, x \in InstanceValues : SetUnityInstance(h, x)
  \/ \E h \in Handles, f \in FullscreenValues : SetFullscreen(h, f)
  \/ \E h \in Handles, p \in Parameters : Send(h, "GameObject", "Method", p)
  \/ \E h \in Handles : Remove(h)
  \/ \E k \in DOMAIN pendingQuit : QuitCallback(k)
  \/ \E h \in Handles, cb \in Callbacks : On(h, "quitted", cb)
  \/ \E h \in Handles : On(h, "loaded", "cb1")
  \/ \E h \in Handles, e \in EventNames : TriggerUnityEvent(h, e, "42")

SpecLifecycle == InitOne /\ [][NextLifecycle]_vars

\* A process from its start: handles constructed and discarded, each registering
\* events in the one namespace.
NextProcess ==
  \/ Construct
  \/ \E h \in Handles : Discard(h)
  \/ \E h \in Handles, e \in EventNames, cb \in Callbacks : On(h, e, cb)
  \/ \E e \in EventNames : NamespaceCall(e, "42")

SpecProcess == Init /\ [][NextProcess]_vars

\* The state after two handles are constructed.
InitTwo ==
  /\ staticUniqueID = NextUniqueID(NextUniqueID(0))
  /\ uniqueID = <<NextUniqueID(0), NextUniqueID(NextUniqueID(0))>>
  /\ unityInstance = <<Undefined, Undefined>>
  /\ unityComponent = <<Undefined, Undefined>>
  /\ unityEvents = << <<>>, <<>> >>
  /\ unityConfig = <<MergeConfig(NoConfig), MergeConfig(NoConfig)>>
  /\ ReactUnityWebGL = EnsureNamespace(EnsureNamespace(UndefinedNamespace))
  /\ pendingQuit = <<>>
  /\ registered = <<>>
  /\ live = {1, 2}
  /\ last = Op("construct", 2, <<>>)
  /\ calls = <<>>
  /\ dispatched = <<>>
  /\ invoked = <<>>
  /\ raised = FALSE
  /\ running = FALSE

\* Two handles, each with its own instance and bindings.
NextHandles ==
  \/ SetUnityInstance(1, "instA")
  \/ SetUnityInstance(2, "instB")
  \/ \E h \in Handles : SetFullscreen(h, "true")
  \/ \E h \in Handles : Send(h, "GameObject", "Method", Undefined)
  \/ \E h \in Handles : Remove(h)
  \/ \E k \in DOMAIN pendingQuit : QuitCallback(k)
  \/ \E h \in Handles, cb \in Callbacks : On(h, "quitted", cb)
  \/ \E h \in Handles : TriggerUnityEvent(h, "quitted", "42")

SpecHandles == InitTwo /\ [][NextHandles]_vars

(***************************************************************************)
(* The properties checked.                                                 *)
(***************************************************************************)

\* What a dispatch of eventName with eventValue is to invoke on the bindings
\* `events`: the callback of each binding of that name, in the order of the list.
Matching(events, eventName, eventValue) ==
  LET Named(b) == b.eventName = eventName
      sel == SelectSeq(events, Named)
  IN  [k \in 1..Len(sel) |-> [callback |-> sel[k].eventCallback, argument |-> eventValue]]

\* The callback handed to the most recent on(eventName, .) of any handle.
LastRegistered(eventName) ==
  LET Named(r) == r.eventName = eventName
      sel == SelectSeq(registered, Named)
  IN  IF sel = <<>> THEN Undefined ELSE sel[Len(sel)].eventCallback

Binding(eventName, eventCallback) == [eventName |-> eventName, eventCallback |-> eventCallback]
Invocation(eventCallback, argument) == [callback |-> eventCallback, argument |-> argument]

\* C1: after triggerUnityEvent(e, v) the callbacks invoked are those of the
\* bindings named e, each once with v, in registration order (none when no
\* binding is named e), and nothing is raised.
C1_DispatchInRegistrationOrder ==
  last.op = "triggerUnityEvent" =>
    /\ invoked = Matching(unityEvents[last.content], last.args[1], last.args[2])
    /\ raised = FALSE

\* C1 witness: on("loaded", cb1), on("quitted", cb1), on("loaded", cb2), then
\* triggerUnityEvent("loaded", 42) has invoked cb1(42) and cb2(42), in that order.
C1_Witness ==
  /\ last = Op("triggerUnityEvent", 1, <<"loaded", "42">>)
  /\ unityEvents[1] = <<Binding("loaded", "cb1"), Binding("quitted", "cb1"),
                        Binding("loaded", "cb2")>>
  /\ invoked = <<Invocation("cb1", "42"), Invocation("cb2", "42")>>

\* C2: once the runtime has invoked the completion callback of remove(), the
\* instance reference is cleared and exactly one "quitted" dispatch was made,
\* with no value: each "quitted" listener was invoked once with undefined.
C2_QuitCompletionUnbinds ==
  last.op = "quitCallback" =>
    /\ unityInstance[last.content] = Undefined
    /\ dispatched = <<[eventName |-> "quitted", eventValue |-> Undefined]>>
    /\ invoked = Matching(unityEvents[last.content], "quitted", Undefined)
    /\ raised = FALSE

\* C2 witness: the shutdown of instA has completed on a handle with a "quitted"
\* and a "loaded" listener; the "quitted" listener alone ran, with undefined.
C2_Witness ==
  /\ last = Op("quitCallback", 1, <<"instA">>)
  /\ unityEvents[1] = <<Binding("loaded", "cb1"), Binding("quitted", "cb1")>>
  /\ invoked = <<Invocation("cb1", Undefined)>>
  /\ unityInstance[1] = Undefined

\* C3: remove() on a handle with no instance attached makes exactly one call,
\* the warning of the logging service; it dispatches nothing, asks for no
\* shutdown and leaves the instance reference, the bindings and the namespace
\* as they were.
C3_RemoveUnboundWarns ==
  [][(last'.op = "remove" /\ unityInstance[last'.content] = Undefined) =>
       /\ calls' = <<Warning>>
       /\ dispatched' = <<>> /\ invoked' = <<>> /\ raised' = FALSE
       /\ pendingQuit' = pendingQuit
       /\ unityInstance' = unityInstance
       /\ unityEvents' = unityEvents
       /\ ReactUnityWebGL' = ReactUnityWebGL]_vars

\* C3 witness: remove() has warned on a handle that has a listener and no instance.
C3_Witness ==
  /\ last.op = "remove"
  /\ unityInstance[last.content] = Undefined
  /\ unityEvents[last.content] # <<>>
  /\ calls = <<Warning>>

\* C4: with no instance attached, send() and setFullscreen() call no
\* collaborator, raise nothing and leave the instance reference, the bindings
\* and the namespace unchanged.
C4_UnboundSendIsNoOp ==
  [][(last'.op \in {"send", "setFullscreen"} /\ unityInstance[last'.content] = Undefined) =>
       /\ calls' = <<>>
       /\ dispatched' = <<>> /\ invoked' = <<>> /\ raised' = FALSE
       /\ pendingQuit' = pendingQuit
       /\ unityInstance' = unityInstance
       /\ unityEvents' = unityEvents
       /\ ReactUnityWebGL' = ReactUnityWebGL]_vars

\* C4 witness: send() has run on a handle with no instance and has called
\* nothing, while the namespace holds an entry for "quitted".
C4_Witness ==
  /\ last.op = "send"
  /\ unityInstance[last.content] = Undefined
  /\ ReactUnityWebGL.entry["quitted"] # Undefined
  /\ calls = <<>>

\* C5: the uniqueID of a handle is strictly greater than that of every handle
\* constructed before it, discarded or not.
C5_UniqueIDIncreases ==
  \A i, j \in Handles : i < j => uniqueID[i] < uniqueID[j]

\* C5 witness: a handle constructed after the first handle was discarded.
C5_Witness ==
  /\ last = Op("construct", 2, <<>>)
  /\ 1 \notin live
  /\ uniqueID[2] > uniqueID[1]

\* C6: the namespace entry of every event name is the callback of the most
\* recent on() of that name by any handle, and calling the entry invokes that
\* callback alone.
C6_NamespaceLastWins ==
  /\ ReactUnityWebGL.defined =>
       \A e \in EventNames : ReactUnityWebGL.entry[e] = LastRegistered(e)
  /\ last.op = "namespaceCall" =>
       invoked = <<Invocation(LastRegistered(last.args[1]), last.args[2])>>

\* C6 witness: handle 1 registered "loaded" with cb1, handle 2 then registered
\* "loaded" with cb2, and the namespace entry of "loaded" has invoked cb2 alone.
C6_Witness ==
  /\ last = Op("namespaceCall", 0, <<"loaded", "42">>)
  /\ unityEvents[1] = <<Binding("loaded", "cb1")>>
  /\ Len(uniqueID) >= 2
  /\ unityEvents[2] = <<Binding("loaded", "cb2")>>
  /\ registered[Len(registered)].content = 2
  /\ invoked = <<Invocation("cb2", "42")>>

\* C7: an operation on one handle leaves the bindings and the instance
\* reference of every other handle unchanged, and triggerUnityEvent on a handle
\* invokes only callbacks registered, for that name, through that handle.
C7_HandlesIsolated ==
  [][/\ \A b \in Handles \ {last'.content} :
          /\ unityEvents'[b] = unityEvents[b]
          /\ unityInstance'[b] = unityInstance[b]
     /\ last'.op = "triggerUnityEvent" =>
          \A k \in DOMAIN invoked' :
            \E n \in DOMAIN registered :
              /\ registered[n].content = last'.content
              /\ registered[n].eventName = last'.args[1]
              /\ registered[n].eventCallback = invoked'[k].callback]_vars

\* C7 witness: handle 1 holds cb1 and instA, handle 2 holds cb2 and instB, and
\* a dispatch on handle 1 has invoked cb1 alone.
C7_Witness ==
  /\ last = Op("triggerUnityEvent", 1, <<"quitted", "42">>)
  /\ unityEvents[1] = <<Binding("quitted", "cb1")>>
  /\ unityEvents[2] = <<Binding("quitted", "cb2")>>
  /\ unityInstance = <<"instA", "instB">>
  /\ invoked = <<Invocation("cb1", "42")>>

C9_RemoveWithoutQuitWarns ==
  [][/\ (last'.op = "remove" /\ unityInstance[last'.content] = NoQuitInstance) =>
          /\ calls' = <<Warning>>
          /\ dispatched' = <<>> /\ invoked' = <<>> /\ raised' = FALSE
          /\ pendingQuit' = pendingQuit
          /\ unityInstance' = unityInstance
          /\ unityEvents' = unityEvents
          /\ ReactUnityWebGL' = ReactUnityWebGL
     /\ (last'.op = "send" /\ unityInstance[last'.content] = NoQuitInstance) =>
          /\ Len(calls') = 1
          /\ calls'[1].target = NoQuitInstance /\ calls'[1].fn = "SendMessage"]_vars

\* C9 witness: remove() has warned on a handle bound to the instance without
\* Quit, which has a "quitted" listener.
C9_Witness ==
  /\ last.op = "remove"
  /\ unityInstance[last.content] = NoQuitInstance
  /\ \E k \in DOMAIN unityEvents[last.content] :
       unityEvents[last.content][k].eventName = "quitted"
  /\ calls = <<Warning>>

\* C10: send(), setFullscreen() and remove() never raise, whatever
\* setUnityInstance was given; on a handle holding undefined or null, send()
\* and setFullscreen() call nothing and remove() makes the one warning call.
C10_NullishNeverRaises ==
  last.op \in {"send", "setFullscreen", "remove"} =>
    /\ raised = FALSE
    /\ unityInstance[last.content] \in {Undefined, Null} =>
         calls = IF last.op = "remove" THEN <<Warning>> ELSE <<>>

\* What a caller may hand to send as its parameter: nothing, or a value.
SendParameters == {Undefined, Null, "0", "''", "false", "'text'"}
GameObjectNames == {"GameObject", "Player"}
MethodNames == {"Method", "Jump"}

\* One handle: messages sent to whatever setUnityInstance was given.
NextSend ==
  \/ \E h \in Handles, x \in InstanceValues : SetUnityInstance(h, x)
  \/ \E h \in Handles, o \in GameObjectNames, m \in MethodNames, p \in SendParameters :
       Send(h, o, m, p)

SpecSend == InitOne /\ [][NextSend]_vars

\* C11: after send(o, m, p) on a handle with an instance attached, exactly one
\* call was made, SendMessage on that instance, with the arguments (o, m) when
\* no parameter was supplied and (o, m, p) with p unchanged when one was, the
\* falsy 0, '', false and null included; nothing is raised.
C11_SendForwardsOneMessage ==
  (last.op = "send" /\ unityInstance[last.content] \in Instances) =>
    /\ Len(calls) = 1
    /\ calls[1].target = unityInstance[last.content]
    /\ calls[1].fn = "SendMessage"
    /\ calls[1].args = IF last.args[3] = Undefined
                         THEN <<last.args[1], last.args[2]>>
                         ELSE <<last.args[1], last.args[2], last.args[3]>>
    /\ raised = FALSE

\* C11 witness: send("Player", "Jump", '') on a handle bound to instA has
\* called instA.SendMessage("Player", "Jump", '').
C11_Witness ==
  /\ last = Op("send", 1, <<"Player", "Jump", "''">>)
  /\ unityInstance[1] = "instA"
  /\ calls = <<Call("instA", "SendMessage", <<"Player", "Jump", "''">>)>>

\* A process from its start: handles constructed, each with a configuration.
NextConfig ==
  \E c \in Configs : ConstructWith(c)

SpecConfig == Init /\ [][NextConfig]_vars

\* The value of a field of the configuration handed over, undefined when the
\* configuration or the field was left out.
Supplied(config, field) == IF config.given THEN config[field] ELSE Undefined

\* C12: after construction with any configuration (none included), each of
\* modules, unityVersion and id of the stored configuration is the supplied
\* value when one was supplied and the default ({}, "undefined", "nill")
\* otherwise, and adjustOnWindowResize is stored as supplied.
C12_ConfigMergedOverDefaults ==
  last.op = "constructWith" =>
    LET config == last.args[1]
        stored == unityConfig[last.content]
        Merged(field, default) ==
          IF Supplied(config, field) # Undefined THEN Supplied(config, field) ELSE default
    IN  /\ stored.modules = Merged("modules", "{}")
        /\ stored.unityVersion = Merged("unityVersion", "'undefined'")
        /\ stored.id = Merged("id", "'nill'")
        /\ stored.adjustOnWindowResize = Supplied(config, "adjustOnWindowResize")

\* The listeners of "quitted": one that returns, one that sends, one that throws.
QuitListeners == {"cb1", SendingCallback, ThrowingCallback}

\* One handle: instances attached and shut down, with "quitted" listeners that
\* call back into the handle or throw.
NextQuitListeners ==
  \/ \E h \in Handles, x \in QuitInstances : SetUnityInstance(h, x)
  \/ \E h \in Handles : Remove(h)
  \/ \E k \in DOMAIN pendingQuit : QuitCallback(k)
  \/ \E h \in Handles, cb \in QuitListeners : On(h, "quitted", cb)

SpecQuitListeners == InitOne /\ [][NextQuitListeners]_vars

\* The messages sent by the invocations `inv` of listeners on `instance`: one
\* SendMessage("GameObject", "Method") for each invocation of the sending callback.
SentBy(inv, instance) ==
  LET Sends(x) == x.callback = SendingCallback
      sel == SelectSeq(inv, Sends)
  IN  [k \in 1..Len(sel) |-> Call(instance, "SendMessage", <<"GameObject", "Method">>)]

\* C13: when a completion callback runs on a handle with an instance attached,
\* every "quitted" listener it invokes runs with that instance still attached
\* (each send() of a listener is forwarded to it), the handle is unbound in
\* the end only if all "quitted" listeners were invoked, and it is unbound
\* when they all returned.
C13_QuittedDispatchedBeforeClear ==
  [][(last'.op = "quitCallback" /\ unityInstance[last'.content] \in Instances) =>
       /\ calls' = SentBy(invoked', unityInstance[last'.content])
       /\ unityInstance'[last'.content] = Undefined =>
            invoked' = Matching(unityEvents[last'.content], "quitted", Undefined)
       /\ ~raised' => unityInstance'[last'.content] = Undefined]_vars

\* C13 witness: with the listeners cb1 and cbSend of "quitted", the completion
\* callback of instA has run: cbSend's message went to instA, and the handle
\* is unbound.
C13_Witness ==
  /\ last = Op("quitCallback", 1, <<"instA">>)
  /\ invoked = <<Invocation("cb1", Undefined), Invocation(SendingCallback, Undefined)>>
  /\ calls = <<Call("instA", "SendMessage", <<"GameObject", "Method">>)>>
  /\ unityInstance[1] = Undefined

\* C14: a completion callback unbinds only the instance whose shutdown it
\* completes: run on a handle that holds another instance by then, it leaves
\* that instance attached.
C14_CompletionUnbindsOnlyItsInstance ==
  [][(/\ last'.op = "quitCallback"
      /\ unityInstance[last'.content] \in Instances
      /\ unityInstance[last'.content] # last'.args[1]) =>
       unityInstance'[last'.content] = unityInstance[last'.content]]_vars

\* Whether a shutdown of `instance`, asked for by handle h, is pending.
ShutdownPending(h, instance) ==
  \E k \in DOMAIN pendingQuit : pendingQuit[k] = [content |-> h, instance |-> instance]

\* C15: a remove() called while a shutdown of the attached instance is pending
\* issues no further Quit and hands the runtime no further completion callback
\* (so no second "quitted" dispatch follows).
C15_OneQuitPerInstance ==
  [][(/\ last'.op = "remove"
      /\ ShutdownPending(last'.content, unityInstance[last'.content])) =>
       /\ \A k \in DOMAIN calls' : calls'[k].fn # "Quit"
       /\ pendingQuit' = pendingQuit]_vars

\* The callbacks of a dispatch: one that returns, and two that register.
ReentrantCallbacks == {"cb1", RegisteringCallback, RearmingCallback}

\* One handle: registration and dispatch, with callbacks that call on() of
\* their handle while they are dispatched to.
NextReentrant ==
  \/ \E h \in Handles, e \in EventNames, cb \in ReentrantCallbacks : On(h, e, cb)
  \/ \E h \in Handles, e \in EventNames : TriggerUnityEvent(h, e, "42")

SpecReentrant == InitOne /\ [][NextReentrant]_vars

\* C16: triggerUnityEvent(e, v) invokes the bindings named e that were in the
\* list of its handle when it was called, and no binding registered by a
\* callback during the dispatch.
C16_DispatchOverBindingsAtCall ==
  [][last'.op = "triggerUnityEvent" =>
       invoked' = Matching(unityEvents[last'.content], last'.args[1], last'.args[2])]_vars

\* C17: every triggerUnityEvent call returns, also when the callbacks it
\* invokes call on() of the same handle with the name being dispatched.
C17_DispatchTerminates ==
  last.op = "triggerUnityEvent" => ~running

\* C18: the binding list of a handle is append-only: on() appends its one
\* binding at the end of the list of its handle, whatever the list holds, and
\* no other operation changes any list.
C18_BindingsAppendOnly ==
  [][IF last'.op = "on"
       THEN unityEvents' = [unityEvents EXCEPT ![last'.content] =
                              Append(@, Binding(last'.args[1], last'.args[2]))]
       ELSE unityEvents' = unityEvents]_vars

\* C18 witness: two equal bindings of "quitted" were appended, and a dispatch
\* on the handle, which holds instB by now, has invoked both.
C18_Witness ==
  /\ last = Op("triggerUnityEvent", 1, <<"quitted", "42">>)
  /\ unityInstance[1] = "instB"
  /\ unityEvents[1] = <<Binding("quitted", "cb1"), Binding("quitted", "cb1")>>
  /\ invoked = <<Invocation("cb1", "42"), Invocation("cb1", "42")>>

\* A process from its start: handles constructed, registering events in the
\* one namespace, the instance of the first attached and shut down.
NextNamespace ==
  \/ Construct
  \/ \E h \in Handles, cb \in Callbacks : On(h, "loaded", cb)
  \/ On(1, "quitted", "cb1")
  \/ SetUnityInstance(1, "instA")
  \/ Remove(1)
  \/ \E k \in DOMAIN pendingQuit : QuitCallback(k)
  \/ \E e \in EventNames : NamespaceCall(e, "42")

SpecNamespace == Init /\ [][NextNamespace]_vars

\* C19: the namespace is created by a construction that finds none, and an
\* existing namespace stays: a construction, remove() and its completion
\* callback (every operation but on()) leave it and each of its entries as they
\* are, and on() writes the one entry of its event name.
C19_NamespaceCreatedOnce ==
  [][/\ ReactUnityWebGL.defined => ReactUnityWebGL'.defined
     /\ (~ReactUnityWebGL.defined /\ ReactUnityWebGL'.defined) =>
          (last'.op = "construct" /\ ReactUnityWebGL' = EmptyNamespace)
     /\ (ReactUnityWebGL.defined /\ last'.op # "on") => ReactUnityWebGL' = ReactUnityWebGL
     /\ last'.op = "on" =>
          \A e \in EventNames \ {last'.args[1]} :
            ReactUnityWebGL'.entry[e] = ReactUnityWebGL.entry[e]]_vars

\* C19 witness: a second handle was constructed in a process whose namespace
\* holds an entry registered through the first, and the entry is there.
C19_Witness ==
  /\ last = Op("construct", 2, <<>>)
  /\ ReactUnityWebGL.defined
  /\ ReactUnityWebGL.entry["loaded"] = "cb2"
  /\ unityEvents[1] = <<Binding("loaded", "cb2")>>

\* C20: once a completion callback has run, its handle is unbound, also when
\* a "quitted" listener raised during the dispatch.
C20_CompletionAlwaysUnbinds ==
  last.op = "quitCallback" => unityInstance[last.content] = Undefined
====
